---- MODULE Spec2Model ----
(***************************************************************************)
(* Continuous-recognition-task pipeline.                                   *)
(*   scripts/02_to_bids.py          raw log -> validate_data ->            *)
(*                                  build_trial_df -> per-subject tsv      *)
(*   scripts/03_calculate_metrics.py per-subject tsv -> process_crt ->     *)
(*                                  image-level counters -> metrics table  *)
(* Sequences are 1-based here; a Python index p is the position p + 1, so  *)
(* Python's odd indices (the slice [1::2]) are the even positions.         *)
(***************************************************************************)
EXTENDS Integers, Sequences, FiniteSets

VARIABLES
    \* ---- scripts/02_to_bids.py, main ----
    attn_config,        \* ATTN_CONFIG, the validation configuration
    pc02,               \* position of 02 main
    nrows,              \* number of rows of the raw log
    idx,                \* rows of the raw log consumed so far
    row,                \* the row of the current iteration, parsed
    trial_df,           \* the table built for the current row
    participant_ids,    \* subjects appended so far
    bids_files,         \* subjects whose tsv has been written
    manifest,           \* participants.tsv, once written
    \* ---- scripts/03_calculate_metrics.py, main ----
    pc,                 \* position of 03 main
    total,              \* len(participant_ids)
    done_n,             \* participants the loop has finished with
    consolidate_fixation,
    far_threshold,      \* numerator over ThresholdDen
    vigilance_miss_threshold,
    image_level_results,
    valid,
    fail_far,
    fail_miss,
    df,                 \* the table process_crt has read
    status,             \* what process_crt returned or raised
    log,                \* the 'Error processing' lines printed
    output,             \* the metrics table written, if any
    \* ---- two runs of 03 main over one cohort ----
    cohort,             \* the tables on disk, by position in the manifest
    order,              \* the manifest order of the current run
    run,                \* 1 or 2
    statuses,           \* status of each participant in the current run
    first_run           \* counters and statuses the first run ended with

vars == <<attn_config, pc02, nrows, idx, row, trial_df, participant_ids,
          bids_files, manifest, pc, total, done_n, consolidate_fixation,
          far_threshold, vigilance_miss_threshold, image_level_results,
          valid, fail_far, fail_miss, df, status, log, output,
          cohort, order, run, statuses, first_run>>

vars02 == <<attn_config, pc02, nrows, idx, row, trial_df, participant_ids,
            bids_files, manifest>>

vars03 == <<pc, total, done_n, consolidate_fixation, far_threshold,
            vigilance_miss_threshold, image_level_results, valid, fail_far,
            fail_miss, df, status, log, output>>

varsOrder == <<cohort, order, run, statuses, first_run>>

(***************************************************************************)
(* Bounds of the model.                                                    *)
(***************************************************************************)
\* longest raw sequence the conversion step is given
MaxLen == 5
\* longest raw sequence behind a table the scorer is given
MaxCrtLen == 4
\* rows of the raw log
MaxRows == 2
\* participants of a cohort
MaxParticipants == 2
\* largest value of a count or interval knob of ATTN_CONFIG
MaxKnob == 1

(***************************************************************************)
(* scripts/02_to_bids.py: constants                                        *)
(***************************************************************************)
FIXATION == "0"
TARGET == "1"
REPEAT == "2"
FILLER == "3"
VIGILANCE == "4"

IMTYPE_DICT ==
    [c \in {FIXATION, TARGET, REPEAT, FILLER, VIGILANCE} |->
        CASE c = FIXATION -> "FIXATION"
          [] c = TARGET -> "TARGET"
          [] c = REPEAT -> "REPEAT"
          [] c = FILLER -> "FILLER"
          [] c = VIGILANCE -> "VIGILANCE"]

\* --stim_time and --isi
stim_time == 2
isi == 1

(***************************************************************************)
(* scripts/02_to_bids.py: validate_data                                    *)
(***************************************************************************)
\* (imtypeseq == t).sum()
NumOfType(imtypeseq, t) == Cardinality({p \in DOMAIN imtypeseq : imtypeseq[p] = t})

\* set(imseq[imtypeseq == t])
ImagesOfType(imseq, imtypeseq, t) ==
    {imseq[p] : p \in {q \in DOMAIN imseq : imtypeseq[q] = t}}

\* np.where(imseq == im)[0], as a set of positions
Where(imseq, im) == {p \in DOMAIN imseq : imseq[p] = im}

\* np.where(imseq == im)[0][1] - np.where(imseq == im)[0][0]; the code halves
\* it, the comparisons below double the knob instead
OccurrenceDistance(imseq, im) ==
    LET w == Where(imseq, im)
        w0 == CHOOSE p \in w : \A q \in w : p <= q
        w1 == CHOOSE p \in w \ {w0} : \A q \in w \ {w0} : p <= q
    IN w1 - w0

\* lines 43-52
CountChecks(imseq, imtypeseq, attn_config_) ==
    /\ "target_num" \in DOMAIN attn_config_ =>
          /\ NumOfType(imtypeseq, TARGET) = attn_config_.target_num
          /\ NumOfType(imtypeseq, REPEAT) = attn_config_.target_num
    /\ "filler_num" \in DOMAIN attn_config_ =>
          NumOfType(imtypeseq, FILLER) = attn_config_.filler_num
    /\ "vigilance_num" \in DOMAIN attn_config_ =>
          NumOfType(imtypeseq, VIGILANCE) = attn_config_.vigilance_num
    /\ {"target_num", "filler_num", "vigilance_num"} \subseteq DOMAIN attn_config_ =>
          Len(imseq) = (attn_config_.target_num * 2 + attn_config_.filler_num
                            + attn_config_.vigilance_num) * 2

\* lines 54-64
OverlapChecks(imseq, imtypeseq) ==
    LET target_images == ImagesOfType(imseq, imtypeseq, TARGET)
        filler_images == ImagesOfType(imseq, imtypeseq, FILLER)
        repeat_images == ImagesOfType(imseq, imtypeseq, REPEAT)
        vigilance_images == ImagesOfType(imseq, imtypeseq, VIGILANCE)
    IN /\ Cardinality(target_images \cap filler_images) = 0
       /\ Cardinality(target_images \cap repeat_images) = NumOfType(imtypeseq, REPEAT)
       /\ Cardinality(filler_images \cap vigilance_images) = NumOfType(imtypeseq, VIGILANCE)

\* line 69 / line 80: imseq[i] in imseq[:i][imtypeseq[:i] == first]
ShownBefore(imseq, imtypeseq, p, first) ==
    \E q \in 1..(p - 1) : imtypeseq[q] = first /\ imseq[q] = imseq[p]

\* line 71 / line 82
AppearsTwice(imseq, p) == Cardinality(Where(imseq, imseq[p])) = 2

RepeatIntervalOkInclusiveMinMutant(imseq, p, attn_config_) ==
    /\ "min_repeat_interval" \in DOMAIN attn_config_ =>
          OccurrenceDistance(imseq, imseq[p]) >= 2 * attn_config_.min_repeat_interval
    /\ "max_repeat_interval" \in DOMAIN attn_config_ =>
          OccurrenceDistance(imseq, imseq[p]) <= 2 * attn_config_.max_repeat_interval

\* lines 73-77
RepeatIntervalOk(imseq, p, attn_config_) ==
    /\ "min_repeat_interval" \in DOMAIN attn_config_ =>
          OccurrenceDistance(imseq, imseq[p]) > 2 * attn_config_.min_repeat_interval
    /\ "max_repeat_interval" \in DOMAIN attn_config_ =>
          OccurrenceDistance(imseq, imseq[p]) <= 2 * attn_config_.max_repeat_interval

\* lines 84-87
VigilanceIntervalOk(imseq, p, attn_config_) ==
    /\ "min_vigilance_interval" \in DOMAIN attn_config_ =>
          OccurrenceDistance(imseq, imseq[p]) >= 2 * attn_config_.min_vigilance_interval
    /\ "max_vigilance_interval" \in DOMAIN attn_config_ =>
          OccurrenceDistance(imseq, imseq[p]) <= 2 * attn_config_.max_vigilance_interval

\* lines 89-93: imtypeseq[1::2] and imseq[1::2] are the even positions
FixationChecks(imseq, imtypeseq, attn_config_) ==
    /\ \A q \in DOMAIN imtypeseq : q % 2 = 0 => imtypeseq[q] = FIXATION
    /\ "fixation_img_name" \in DOMAIN attn_config_ =>
          \A q \in DOMAIN imseq : q % 2 = 0 => imseq[q] = attn_config_.fixation_img_name

PerTrialChecksNoPriorMutant(imseq, imtypeseq, p, attn_config_) ==
    /\ imtypeseq[p] = REPEAT =>
          /\ AppearsTwice(imseq, p)
          /\ RepeatIntervalOk(imseq, p, attn_config_)
    /\ imtypeseq[p] = VIGILANCE =>
          /\ AppearsTwice(imseq, p)
          /\ VigilanceIntervalOk(imseq, p, attn_config_)
    /\ FixationChecks(imseq, imtypeseq, attn_config_)

\* lines 67-93, one iteration of the loop
PerTrialChecks(imseq, imtypeseq, p, attn_config_) ==
    /\ imtypeseq[p] = REPEAT =>
          /\ ShownBefore(imseq, imtypeseq, p, TARGET)
          /\ AppearsTwice(imseq, p)
          /\ RepeatIntervalOk(imseq, p, attn_config_)
    /\ imtypeseq[p] = VIGILANCE =>
          /\ ShownBefore(imseq, imtypeseq, p, FILLER)
          /\ AppearsTwice(imseq, p)
          /\ VigilanceIntervalOk(imseq, p, attn_config_)
    /\ FixationChecks(imseq, imtypeseq, attn_config_)

\* TRUE when no assertion of validate_data fails
validate_data(imseq, imtypeseq, keyPressSequence, RTSequence, attn_config_) ==
    /\ Len(imseq) = Len(imtypeseq)
    /\ Len(imtypeseq) = Len(keyPressSequence)
    /\ Len(keyPressSequence) = Len(RTSequence)
    /\ CountChecks(imseq, imtypeseq, attn_config_)
    /\ OverlapChecks(imseq, imtypeseq)
    /\ \A p \in DOMAIN imseq : PerTrialChecks(imseq, imtypeseq, p, attn_config_)

(***************************************************************************)
(* scripts/02_to_bids.py: build_trial_df, and the tsv it is saved as       *)
(***************************************************************************)
\* lines 96-107: onset of the trial at position p
RECURSIVE Onset(_, _)
Onset(imtypeseq, p) ==
    IF p = 1 THEN 0
    ELSE Onset(imtypeseq, p - 1)
            + (IF imtypeseq[p - 1] = FIXATION THEN isi ELSE stim_time)

\* None if not k else k, written with na_rep='n/a'
NoneIfEmpty(k) == IF k = "" THEN "n/a" ELSE k

build_trial_df(imseq, imtypeseq, keyPressSequence, RTSequence) ==
    [p \in 1..Len(imtypeseq) |->
        [onset |-> Onset(imtypeseq, p),
         duration |-> IF imtypeseq[p] = FIXATION THEN isi ELSE stim_time,
         trial_type |-> IMTYPE_DICT[imtypeseq[p]],
         response |-> NoneIfEmpty(keyPressSequence[p]),
         response_time |-> NoneIfEmpty(RTSequence[p]),
         stim_file |-> imseq[p]]]

(***************************************************************************)
(* The raw logs the model is given.                                        *)
(***************************************************************************)
Images == {"A", "B"}
FixationImage == "fx"

\* an on-image slot of the raw log: an image of any type, or a fixation
ImageSlots ==
    {<<im, t>> : im \in Images, t \in {TARGET, REPEAT, FILLER, VIGILANCE}}
        \cup {<<FixationImage, FIXATION>>}

\* the slot after it: the fixation, a fixation showing an image, an image
FixationSlots == {<<FixationImage, FIXATION>>, <<"A", FIXATION>>, <<"A", TARGET>>}

RECURSIVE SlotSeqs(_, _)
SlotSeqs(n, fixslots) ==
    IF n = 0 THEN {<<>>}
    ELSE {Append(s, x) : s \in SlotSeqs(n - 1, fixslots),
                         x \in IF n % 2 = 1 THEN ImageSlots ELSE fixslots}

\* the response times the browser records: one per keypress
RTOf(keys) == [p \in DOMAIN keys |-> IF keys[p] = "" THEN "" ELSE "350"]

MkRow(slots, keys, rts) ==
    [imseq |-> [p \in DOMAIN slots |-> slots[p][1]],
     imtypeseq |-> [p \in DOMAIN slots |-> slots[p][2]],
     keyPressSequence |-> keys,
     RTSequence |-> rts]

NoKeys(n) == [p \in 1..n |-> ""]

\* rows of the raw log given to the conversion step: every arrangement of
\* slots up to MaxLen, no key pressed, the response times of equal length or
\* one short
BidsRows ==
    UNION {{MkRow(s, NoKeys(n), NoKeys(n)) : s \in SlotSeqs(n, FixationSlots)}
              : n \in 1..MaxLen}
      \cup {MkRow(s, NoKeys(2), NoKeys(1)) : s \in SlotSeqs(2, FixationSlots)}

Knobs == 0..MaxKnob

\* ATTN_CONFIG: empty as committed, or with knobs set
Configs ==
    {[k \in {} |-> 0]}
      \cup {[target_num |-> n] : n \in Knobs}
      \cup {[filler_num |-> n] : n \in Knobs}
      \cup {[vigilance_num |-> n] : n \in Knobs}
      \cup {[target_num |-> 1, filler_num |-> n, vigilance_num |-> 0] : n \in Knobs}
      \cup {[min_repeat_interval |-> n] : n \in Knobs}
      \cup {[max_repeat_interval |-> n] : n \in Knobs}
      \cup {[min_vigilance_interval |-> n] : n \in Knobs}
      \cup {[max_vigilance_interval |-> n] : n \in Knobs}
      \cup {[fixation_img_name |-> FixationImage]}

(***************************************************************************)
(* scripts/02_to_bids.py: main                                             *)
(***************************************************************************)
NoRow == MkRow(<<>>, <<>>, <<>>)

NoManifest == [written |-> FALSE, participant_id |-> <<>>]

Init02 ==
    /\ attn_config \in Configs
    /\ pc02 = "loop"
    /\ nrows \in 1..MaxRows
    /\ idx = 0
    /\ row = NoRow
    /\ trial_df = <<>>
    /\ participant_ids = <<>>
    /\ bids_files = {}
    /\ manifest = NoManifest

\* lines 131-138: the next row is split into its four sequences and
\* validated; a failed assertion is not caught and ends the script
ReadAndValidate ==
    /\ pc02 = "loop"
    /\ idx < nrows
    /\ \E r \in BidsRows :
          /\ row' = r
          /\ pc02' = IF validate_data(r.imseq, r.imtypeseq, r.keyPressSequence,
                                      r.RTSequence, attn_config)
                     THEN "validated"
                     ELSE "AssertionError"
    /\ UNCHANGED <<attn_config, nrows, idx, trial_df, participant_ids,
                   bids_files, manifest>>

\* line 141
BuildTrialDf ==
    /\ pc02 = "validated"
    /\ trial_df' = build_trial_df(row.imseq, row.imtypeseq,
                                  row.keyPressSequence, row.RTSequence)
    /\ pc02' = "built"
    /\ UNCHANGED <<attn_config, nrows, idx, row, participant_ids, bids_files,
                   manifest>>

\* lines 143-155: the subject is the row's index plus one; its tsv is
\* written and the subject appended
SaveTrialDf ==
    /\ pc02 = "built"
    /\ bids_files' = bids_files \cup {idx + 1}
    /\ participant_ids' = Append(participant_ids, idx + 1)
    /\ idx' = idx + 1
    /\ row' = NoRow
    /\ trial_df' = <<>>
    /\ pc02' = "loop"
    /\ UNCHANGED <<attn_config, nrows, manifest>>

\* lines 157-162: after the last row participants.tsv is written
WriteParticipants ==
    /\ pc02 = "loop"
    /\ idx = nrows
    /\ manifest' = [written |-> TRUE, participant_id |-> participant_ids]
    /\ pc02' = "done"
    /\ UNCHANGED <<attn_config, nrows, idx, row, trial_df, participant_ids,
                   bids_files>>

(***************************************************************************)
(* scripts/03_calculate_metrics.py                                         *)
(***************************************************************************)
VALID_RESPONSE == {"R", "r", "82", "114"}

Counters ==
    {"target_hit", "target_miss", "target_fa", "target_cr",
     "filler_hit", "filler_miss", "filler_fa", "filler_cr",
     "n_participants_target", "n_participants_filler"}

\* the defaultdict's default value
ZeroCounters == [c \in Counters |-> 0]

\* lines 29-43: a defaultdict with no key yet
initialize_image_level_results == [im \in {} |-> ZeroCounters]

\* image_level_results[im][counter] += 1; reading a missing key creates it
Increment(results, im, counter) ==
    [x \in DOMAIN results \cup {im} |->
        IF x = im
        THEN [(IF im \in DOMAIN results THEN results[im] ELSE ZeroCounters)
                 EXCEPT ![counter] = @ + 1]
        ELSE results[x]]

IsImageTrialType(imtype) == imtype \in {"TARGET", "REPEAT", "FILLER", "VIGILANCE"}

\* the outcome counter of lines 140-171
OutcomeCounter(imtype, keypress) ==
    CASE imtype = "TARGET" -> IF keypress THEN "target_fa" ELSE "target_cr"
      [] imtype = "REPEAT" -> IF keypress THEN "target_hit" ELSE "target_miss"
      [] imtype = "FILLER" -> IF keypress THEN "filler_fa" ELSE "filler_cr"
      [] imtype = "VIGILANCE" -> IF keypress THEN "filler_hit" ELSE "filler_miss"

\* lines 140-171: one trial of a known type
ClassifyTrial(results, im, imtype, keypress) ==
    LET counted ==
            CASE imtype = "TARGET" -> Increment(results, im, "n_participants_target")
              [] imtype = "FILLER" -> Increment(results, im, "n_participants_filler")
              [] OTHER -> results
    IN Increment(counted, im, OutcomeCounter(imtype, keypress))

\* lines 139-174 from the k-th zipped trial on; the dictionary is updated in
\* place, so what was counted before a raise stays counted
RECURSIVE UpdateFrom(_, _, _, _, _)
UpdateFrom(results, imseq, imtypeseq, keypressseq, k) ==
    IF k > Len(imseq) \/ k > Len(imtypeseq) \/ k > Len(keypressseq)
    THEN [image_level_results |-> results, raised |-> FALSE]
    ELSE IF ~IsImageTrialType(imtypeseq[k])
    THEN [image_level_results |-> results, raised |-> TRUE]
    ELSE UpdateFrom(ClassifyTrial(results, imseq[k], imtypeseq[k], keypressseq[k]),
                    imseq, imtypeseq, keypressseq, k + 1)

update_crt_image_level_results(results, imseq, imtypeseq, keypressseq) ==
    UpdateFrom(results, imseq, imtypeseq, keypressseq, 1)

\* values[::2] and values[1::2]
EvenIndexed(s) == [k \in 1..((Len(s) + 1) \div 2) |-> s[2 * k - 1]]
OddIndexed(s) == [k \in 1..(Len(s) \div 2) |-> s[2 * k]]

\* numpy's a | b on one-dimensional arrays: equal lengths elementwise, a
\* length of one is stretched to the other, anything else raises
Broadcastable(a, b) == Len(a) = Len(b) \/ Len(a) = 1 \/ Len(b) = 1

BroadcastOr(a, b) ==
    LET n == IF Len(a) = Len(b) THEN Len(a) ELSE IF Len(a) = 1 THEN Len(b) ELSE Len(a)
    IN [k \in 1..n |-> a[IF Len(a) = 1 THEN 1 ELSE k] \/ b[IF Len(b) = 1 THEN 1 ELSE k]]

\* keypressseq[imtypeseq == t].sum(), or its negation's
Presses(imtypeseq, keypressseq, t, pressed) ==
    Cardinality({k \in DOMAIN imtypeseq : imtypeseq[k] = t /\ keypressseq[k] = pressed})

RateAtLeastStrictMutant(count, n, threshold) ==
    n > 0 /\ count * threshold[2] > threshold[1] * n

\* count / n >= threshold, threshold = <<numerator, denominator>>; 0 / 0 is
\* nan, and nan >= threshold is False
RateAtLeast(count, n, threshold) ==
    n > 0 /\ count * threshold[2] >= threshold[1] * n

\* line 95
KeypressRaw(table, valid_response) ==
    [p \in DOMAIN table |-> table[p].response \in valid_response]

\* lines 98-100: the presses on the images, with those of the fixations
\* after them when consolidate_fixation is set
Keypressseq(table, valid_response, consolidate_fixation_) ==
    IF consolidate_fixation_
    THEN BroadcastOr(EvenIndexed(KeypressRaw(table, valid_response)),
                     OddIndexed(KeypressRaw(table, valid_response)))
    ELSE EvenIndexed(KeypressRaw(table, valid_response))

ReturnedOnExclusionUpdatedMutant(results, updated) == updated

ReturnedOnExclusionFreshMutant(results, updated) == initialize_image_level_results

\* lines 105 and 110: an excluded participant returns the dictionary it was
\* given
ReturnedOnExclusion(results, updated) == results

\* lines 89-115, on the table read from the subject's tsv. status is the
\* returned status, or the exception raised
process_crt(table, valid_response, results, consolidate_fixation_, far_threshold_, vigilance_miss_threshold_) ==
    LET imseq == EvenIndexed([p \in DOMAIN table |-> table[p].stim_file])
        imtypeseq == EvenIndexed([p \in DOMAIN table |-> table[p].trial_type])
        keypressseq_raw == KeypressRaw(table, valid_response)
        keypressseq == Keypressseq(table, valid_response, consolidate_fixation_)
        updated == update_crt_image_level_results(results, imseq, imtypeseq, keypressseq)
    IN  IF \E p \in DOMAIN table : p % 2 = 0 /\ table[p].trial_type # "FIXATION"
        THEN [image_level_results |-> results, status |-> "AssertionError"]
        ELSE IF consolidate_fixation_
                  /\ ~Broadcastable(EvenIndexed(keypressseq_raw), OddIndexed(keypressseq_raw))
        THEN [image_level_results |-> results, status |-> "ValueError: broadcast"]
        ELSE IF Len(keypressseq) # Len(imtypeseq)
        THEN [image_level_results |-> results, status |-> "IndexError"]
        ELSE IF RateAtLeast(Presses(imtypeseq, keypressseq, "FILLER", TRUE),
                            NumOfType(imtypeseq, "FILLER"), far_threshold_)
        THEN [image_level_results |-> ReturnedOnExclusion(results, updated.image_level_results),
              status |-> "fail_filler_far"]
        ELSE IF RateAtLeast(Presses(imtypeseq, keypressseq, "VIGILANCE", FALSE),
                            NumOfType(imtypeseq, "VIGILANCE"), vigilance_miss_threshold_)
        THEN [image_level_results |-> ReturnedOnExclusion(results, updated.image_level_results),
              status |-> "fail_vigilance_miss"]
        ELSE IF updated.raised
        THEN [image_level_results |-> updated.image_level_results,
              status |-> "ValueError: Unknown trial type"]
        ELSE [image_level_results |-> updated.image_level_results, status |-> "valid"]

\* lines 196-199
ConsistencyAssertions(results) ==
    \A im \in DOMAIN results :
        /\ results[im].n_participants_target = results[im].target_cr + results[im].target_fa
        /\ results[im].n_participants_target = results[im].target_hit + results[im].target_miss
        /\ results[im].n_participants_filler = results[im].filler_cr + results[im].filler_fa

\* sort_values('image_name')
ImageRank(im) == CASE im = "A" -> 1 [] im = "B" -> 2 [] OTHER -> 3

RECURSIVE SortedImages(_)
SortedImages(ims) ==
    IF ims = {} THEN <<>>
    ELSE LET first == CHOOSE im \in ims : \A other \in ims : ImageRank(im) <= ImageRank(other)
         IN <<first>> \o SortedImages(ims \ {first})

\* a / b of two count columns; <<a, 0>> is pandas' NaN or inf
Ratio(a, b) == <<a, b>>

\* lines 191-208: the rows of the metrics table
convert_crt_image_level_results_to_df(results) ==
    LET names == SortedImages(DOMAIN results)
    IN [k \in DOMAIN names |->
           LET c == results[names[k]]
           IN [image_name |-> names[k],
               counts |-> c,
               target_hr |-> Ratio(c.target_hit, c.target_hit + c.target_miss),
               target_far |-> Ratio(c.target_fa, c.target_fa + c.target_cr),
               target_crr |-> Ratio(c.target_hit * (c.target_fa + c.target_cr)
                                       - c.target_fa * (c.target_hit + c.target_miss),
                                    (c.target_hit + c.target_miss)
                                       * (c.target_fa + c.target_cr))]]

(***************************************************************************)
(* The tables the scorer is given: the tsv of every raw sequence, up to    *)
(* MaxCrtLen, that validate_data accepts under some configuration.         *)
(***************************************************************************)
\* keys pressed while an image is shown: none, a response key, another key
ImageKeys == {"", "r", "x"}
\* keys pressed during the fixation after it
FixationKeys == {"", "r"}

RECURSIVE KeySeqs(_)
KeySeqs(n) ==
    IF n = 0 THEN {<<>>}
    ELSE {Append(s, k) : s \in KeySeqs(n - 1),
                         k \in IF n % 2 = 1 THEN ImageKeys ELSE FixationKeys}

CrtFixationSlots == {<<FixationImage, FIXATION>>, <<FixationImage, TARGET>>}

CrtRows ==
    UNION {{MkRow(s, k, RTOf(k)) : s \in SlotSeqs(n, CrtFixationSlots), k \in KeySeqs(n)}
              : n \in 1..MaxCrtLen}

Accepted(r) ==
    \E c \in Configs :
        validate_data(r.imseq, r.imtypeseq, r.keyPressSequence, r.RTSequence, c)

\* to_csv(..., na_rep='n/a') then read_csv(..., dtype={'response': str}):
\* the table as process_crt reads it
ValidTables ==
    {build_trial_df(r.imseq, r.imtypeseq, r.keyPressSequence, r.RTSequence)
        : r \in {x \in CrtRows : Accepted(x)}}

\* --far_threshold and --vigilance_miss_threshold as <<numerator, denominator>>:
\* the defaults 0.7, and 0.5 with 1.0
Thresholds == {<<<<7, 10>>, <<7, 10>>>>, <<<<1, 2>>, <<1, 1>>>>}

(***************************************************************************)
(* scripts/03_calculate_metrics.py: main                                   *)
(***************************************************************************)
NoOutput == [written |-> FALSE, rows |-> <<>>]

Returned == {"valid", "fail_filler_far", "fail_vigilance_miss"}

Init03 ==
    /\ pc = "loop"
    /\ total \in 1..MaxParticipants
    /\ done_n = 0
    /\ consolidate_fixation \in BOOLEAN
    /\ \E t \in Thresholds : far_threshold = t[1] /\ vigilance_miss_threshold = t[2]
    /\ image_level_results = initialize_image_level_results
    /\ valid = 0
    /\ fail_far = 0
    /\ fail_miss = 0
    /\ df = <<>>
    /\ status = ""
    /\ log = <<>>
    /\ output = NoOutput

\* lines 222-226 with lines 84-115: the next participant's tsv is read and
\* scored; the counters are the dictionary process_crt updates in place
ProcessCrt(table) ==
    /\ pc = "loop"
    /\ done_n < total
    /\ LET r == process_crt(table, VALID_RESPONSE, image_level_results,
                            consolidate_fixation, far_threshold,
                            vigilance_miss_threshold)
       IN /\ df' = table
          /\ image_level_results' = r.image_level_results
          /\ status' = r.status
    /\ pc' = "returned"
    /\ UNCHANGED <<total, done_n, consolidate_fixation, far_threshold,
                   vigilance_miss_threshold, valid, fail_far, fail_miss, log,
                   output>>

\* lines 227-236: the status is tallied, an exception is printed and the
\* loop goes on
Tally ==
    /\ pc = "returned"
    /\ valid' = IF status = "valid" THEN valid + 1 ELSE valid
    /\ fail_far' = IF status = "fail_filler_far" THEN fail_far + 1 ELSE fail_far
    /\ fail_miss' = IF status = "fail_vigilance_miss" THEN fail_miss + 1 ELSE fail_miss
    /\ log' = IF status \in Returned THEN log ELSE Append(log, status)
    /\ done_n' = done_n + 1
    /\ df' = <<>>
    /\ status' = ""
    /\ pc' = "loop"
    /\ UNCHANGED <<total, consolidate_fixation, far_threshold,
                   vigilance_miss_threshold, image_level_results, output>>

\* lines 238-244: after the loop the table is built and written, unless
\* building it raises (no column to read when no image was counted, or a
\* consistency assertion fails)
Finalize ==
    /\ pc = "loop"
    /\ done_n = total
    /\ IF DOMAIN image_level_results = {}
       THEN pc' = "KeyError" /\ output' = output
       ELSE IF ~ConsistencyAssertions(image_level_results)
       THEN pc' = "AssertionError" /\ output' = output
       ELSE /\ pc' = "done"
            /\ output' = [written |-> TRUE,
                          rows |-> convert_crt_image_level_results_to_df(image_level_results)]
    /\ UNCHANGED <<total, done_n, consolidate_fixation, far_threshold,
                   vigilance_miss_threshold, image_level_results, valid,
                   fail_far, fail_miss, df, status, log>>

(***************************************************************************)
(* Specifications.                                                         *)
(***************************************************************************)
Idle02 ==
    /\ attn_config = [k \in {} |-> 0]
    /\ pc02 = "idle"
    /\ nrows = 0
    /\ idx = 0
    /\ row = NoRow
    /\ trial_df = <<>>
    /\ participant_ids = <<>>
    /\ bids_files = {}
    /\ manifest = NoManifest

Idle03 ==
    /\ pc = "idle"
    /\ total = 0
    /\ done_n = 0
    /\ consolidate_fixation = TRUE
    /\ far_threshold = <<7, 10>>
    /\ vigilance_miss_threshold = <<7, 10>>
    /\ image_level_results = initialize_image_level_results
    /\ valid = 0
    /\ fail_far = 0
    /\ fail_miss = 0
    /\ df = <<>>
    /\ status = ""
    /\ log = <<>>
    /\ output = NoOutput

NoFirstRun == [image_level_results |-> initialize_image_level_results, statuses |-> <<>>]

IdleOrder ==
    /\ cohort = <<>>
    /\ order = <<>>
    /\ run = 1
    /\ statuses = <<>>
    /\ first_run = NoFirstRun

\* 03 main over the tsv files of validated raw sequences
Init == Init03 /\ Idle02 /\ IdleOrder

ScoreParticipant ==
    /\ pc = "loop"
    /\ \E t \in ValidTables : ProcessCrt(t)
    /\ UNCHANGED <<vars02, varsOrder>>

TallyParticipant == Tally /\ UNCHANGED <<vars02, varsOrder>>

WriteMetrics == Finalize /\ UNCHANGED <<vars02, varsOrder>>

Next ==
    \/ ScoreParticipant
    \/ TallyParticipant
    \/ WriteMetrics

Spec == Init /\ [][Next]_vars

\* 02 main over the rows of a raw log
InitBids == Init02 /\ Idle03 /\ IdleOrder

ConvertRead == ReadAndValidate /\ UNCHANGED <<vars03, varsOrder>>

ConvertBuild == BuildTrialDf /\ UNCHANGED <<vars03, varsOrder>>

ConvertSave == SaveTrialDf /\ UNCHANGED <<vars03, varsOrder>>

ConvertFinish == WriteParticipants /\ UNCHANGED <<vars03, varsOrder>>

NextBids ==
    \/ ConvertRead
    \/ ConvertBuild
    \/ ConvertSave
    \/ ConvertFinish

SpecBids == InitBids /\ [][NextBids]_vars

\* 03 main run twice over one cohort on disk, the manifest in two orders.
\* The cohort's tables are those of even length in which no key other than
\* a response key is pressed, and none during a fixation.
OrderTables ==
    {t \in ValidTables :
        /\ Len(t) % 2 = 0
        /\ \A p \in DOMAIN t :
              t[p].response \in (IF p % 2 = 1 THEN {"n/a", "r"} ELSE {"n/a"})}

Identity(n) == [k \in 1..n |-> k]

ManifestOrders(n) == {f \in [1..n -> 1..n] : \A a, b \in 1..n : f[a] = f[b] => a = b}

InitOrder ==
    /\ Init03
    /\ consolidate_fixation
    /\ total = MaxParticipants
    /\ Idle02
    /\ cohort \in [1..MaxParticipants -> OrderTables]
    /\ order = Identity(MaxParticipants)
    /\ run = 1
    /\ statuses = <<>>
    /\ first_run = NoFirstRun

\* the participant the manifest lists next
OrderedScore ==
    /\ pc = "loop"
    /\ done_n < total
    /\ ProcessCrt(cohort[order[done_n + 1]])
    /\ UNCHANGED <<vars02, varsOrder>>

\* the tally, with the participant's status kept under its id
OrderedTally ==
    /\ Tally
    /\ statuses' = [id \in DOMAIN statuses \cup {order[done_n + 1]} |->
                       IF id = order[done_n + 1] THEN status ELSE statuses[id]]
    /\ UNCHANGED <<vars02, cohort, order, run, first_run>>

OrderedWriteMetrics == Finalize /\ UNCHANGED <<vars02, varsOrder>>

\* the first run has ended: main is started again on the same files with
\* participants.tsv in another order
Rerun ==
    /\ run = 1
    /\ pc \in {"done", "AssertionError", "KeyError"}
    /\ first_run' = [image_level_results |-> image_level_results, statuses |-> statuses]
    /\ \E o \in ManifestOrders(total) \ {order} : order' = o
    /\ run' = 2
    /\ statuses' = <<>>
    /\ pc' = "loop"
    /\ done_n' = 0
    /\ image_level_results' = initialize_image_level_results
    /\ valid' = 0
    /\ fail_far' = 0
    /\ fail_miss' = 0
    /\ log' = <<>>
    /\ output' = NoOutput
    /\ UNCHANGED <<vars02, cohort, total, consolidate_fixation, far_threshold,
                   vigilance_miss_threshold, df, status>>

NextOrder ==
    \/ OrderedScore
    \/ OrderedTally
    \/ OrderedWriteMetrics
    \/ Rerun

SpecOrder == InitOrder /\ [][NextOrder]_vars

(***************************************************************************)
(* Claims about 03 main, under Spec.                                       *)
(***************************************************************************)
Excluded == {"fail_filler_far", "fail_vigilance_miss"}

\* process_crt has just been called on df and has not been tallied yet
JustScored == pc = "returned"

\* C1: a process_crt call that returns fail_filler_far or
\* fail_vigilance_miss leaves the shared counters as they were before the
\* call: no image-id added, no counter changed.
C1_ExclusionLeavesCounters ==
    [][(pc = "loop" /\ pc' = "returned" /\ status' \in Excluded)
          => image_level_results' = image_level_results]_vars

\* an excluded participant scored after an earlier one has been counted
C1_Witness ==
    /\ JustScored
    /\ status \in Excluded
    /\ DOMAIN image_level_results # {}
    /\ \E p \in DOMAIN df : p % 2 = 1 /\ IsImageTrialType(df[p].trial_type)

\* the on-image trials of df of one type, by position in df
TrialsOfType(t) == {p \in DOMAIN df : p % 2 = 1 /\ df[p].trial_type = t}

\* the press process_crt uses for the on-image trial at position p of df
PressUsed(p) == Keypressseq(df, VALID_RESPONSE, consolidate_fixation)[(p + 1) \div 2]

FillerResponses == Cardinality({p \in TrialsOfType("FILLER") : PressUsed(p)})

VigilanceMisses == Cardinality({p \in TrialsOfType("VIGILANCE") : ~PressUsed(p)})

FillerRateReached ==
    /\ TrialsOfType("FILLER") # {}
    /\ FillerResponses * far_threshold[2]
          >= far_threshold[1] * Cardinality(TrialsOfType("FILLER"))

VigilanceRateReached ==
    /\ TrialsOfType("VIGILANCE") # {}
    /\ VigilanceMisses * vigilance_miss_threshold[2]
          >= vigilance_miss_threshold[1] * Cardinality(TrialsOfType("VIGILANCE"))

ResponseMade(table, p, consolidate) ==
    \/ table[p].response \in VALID_RESPONSE
    \/ /\ consolidate
       /\ p + 1 \in DOMAIN table
       /\ table[p + 1].response \in VALID_RESPONSE

\* the signal-detection table: the counters one trial increments
TableCounters(trial_type, response) ==
    IF trial_type = "TARGET"
    THEN {IF response THEN "target_fa" ELSE "target_cr", "n_participants_target"}
    ELSE IF trial_type = "REPEAT"
    THEN {IF response THEN "target_hit" ELSE "target_miss"}
    ELSE IF trial_type = "FILLER"
    THEN {IF response THEN "filler_fa" ELSE "filler_cr", "n_participants_filler"}
    ELSE IF trial_type = "VIGILANCE"
    THEN {IF response THEN "filler_hit" ELSE "filler_miss"}
    ELSE {}

\* the on-image trials of a table that increment counter c of image im
TrialsCounting(table, consolidate, im, c) ==
    {p \in DOMAIN table :
        /\ p % 2 = 1
        /\ table[p].stim_file = im
        /\ c \in TableCounters(table[p].trial_type, ResponseMade(table, p, consolidate))}

\* the counters after a table is classified into them by the table above
Classified(before, after, table, consolidate) ==
    /\ DOMAIN after = DOMAIN before \cup {table[p].stim_file : p \in {q \in DOMAIN table : q % 2 = 1}}
    /\ \A im \in DOMAIN after : \A c \in Counters :
          after[im][c] = (IF im \in DOMAIN before THEN before[im][c] ELSE 0)
                            + Cardinality(TrialsCounting(table, consolidate, im, c))

\* C5: for a participant returned valid, each on-image trial increments by
\* one, for its image only, the counter the signal-detection table gives
\* (and the exposure count for Target and Filler), a response being a valid
\* code on the trial or, with consolidate_fixation, on the fixation after it.
C5_ValidIsClassifiedByTable ==
    [][(pc = "loop" /\ pc' = "returned" /\ status' = "valid")
          => Classified(image_level_results, image_level_results', df',
                        consolidate_fixation)]_vars

\* C5 for the tables of even length, where every on-image trial has a
\* fixation after it
C5_EvenLengthClassifiedByTable ==
    [][(pc = "loop" /\ pc' = "returned" /\ status' = "valid" /\ Len(df') % 2 = 0)
          => Classified(image_level_results, image_level_results', df',
                        consolidate_fixation)]_vars

\* C2: after any cohort of participants whose raw sequences validate_data
\* accepted has been scored, every image-id has n_participants_target =
\* target_cr + target_fa = target_hit + target_miss and n_participants_filler
\* = filler_cr + filler_fa, so the assertions before the table never fail.
C2_CountersConsistent ==
    /\ pc = "loop" => ConsistencyAssertions(image_level_results)
    /\ pc # "AssertionError"

UnknownTrialTypeRaised ==
    \E k \in DOMAIN log : log[k] = "ValueError: Unknown trial type"

\* C10: once a participant's on-image slot holds a trial type other than
\* Target, Repeat, Filler or Vigilance, the error ends the run: no later
\* participant is processed and no metrics table is written.
C10_UnknownTrialTypeEndsRun ==
    UnknownTrialTypeRaised => (pc \notin {"returned", "done"} /\ ~output.written)

(***************************************************************************)
(* Claims about two runs of 03 main, under SpecOrder.                      *)
(***************************************************************************)
RunEnded == pc \in {"done", "AssertionError", "KeyError"}

\* C3: the same cohort folded in two different participant orders, each
\* from empty counters, ends with the same counters (same image-ids, same
\* value of every counter) and the same status for every participant.
C3_OrderIndependent ==
    (run = 2 /\ RunEnded) =>
        /\ image_level_results = first_run.image_level_results
        /\ statuses = first_run.statuses

\* two runs over a cohort of a counted participant and an excluded one that
\* saw the same image
C3_Witness ==
    /\ run = 2
    /\ RunEnded
    /\ order # Identity(total)
    /\ \E a, b \in DOMAIN statuses :
          /\ statuses[a] = "valid"
          /\ statuses[b] \in Excluded
          /\ cohort[a] # cohort[b]
          /\ \E p \in DOMAIN cohort[a], q \in DOMAIN cohort[b] :
                /\ p % 2 = 1
                /\ q % 2 = 1
                /\ cohort[a][p].stim_file = cohort[b][q].stim_file
    /\ DOMAIN image_level_results # {}

(***************************************************************************)
(* Claims about validate_data and 02 main, under SpecBids.                 *)
(***************************************************************************)
\* validate_data has run on row: it was accepted, or an assertion failed
RowAccepted == pc02 \in {"validated", "built"}
RowRejected == pc02 = "AssertionError"

\* the trial at position p repeats an image that an earlier trial of type
\* first showed, and the image occurs exactly twice in the sequence
SecondShowing(r, p, first) ==
    /\ \E q \in DOMAIN r.imseq :
          q < p /\ r.imtypeseq[q] = first /\ r.imseq[q] = r.imseq[p]
    /\ Cardinality({q \in DOMAIN r.imseq : r.imseq[q] = r.imseq[p]}) = 2

\* C6: validate_data rejects every sequence with a Repeat trial whose image
\* has no earlier Target occurrence or does not occur exactly twice, and
\* every sequence with a Vigilance trial whose image has no earlier Filler
\* occurrence or does not occur exactly twice.
C6_SecondShowingsChecked ==
    RowAccepted =>
        \A p \in DOMAIN row.imtypeseq :
            /\ row.imtypeseq[p] = REPEAT => SecondShowing(row, p, TARGET)
            /\ row.imtypeseq[p] = VIGILANCE => SecondShowing(row, p, FILLER)

\* a rejected sequence that repeats an image before showing it as a Target
\* (the image sets overlap as they should, every image occurs twice) and has
\* its fixations in place
C6_Witness ==
    /\ RowRejected
    /\ DOMAIN attn_config = {}
    /\ Len(row.RTSequence) = Len(row.imseq)
    /\ \A p \in DOMAIN row.imtypeseq : p % 2 = 0 => row.imtypeseq[p] = FIXATION
    /\ \E p, q \in DOMAIN row.imtypeseq :
          /\ p < q
          /\ row.imtypeseq[p] = REPEAT
          /\ row.imtypeseq[q] = TARGET
          /\ row.imseq[p] = row.imseq[q]
          /\ \A m \in DOMAIN row.imseq \ {p, q} :
                row.imtypeseq[m] = FIXATION /\ row.imseq[m] # row.imseq[p]

\* the images of the trials of one type, and those of them that more than
\* one image trial shows
ImagesTagged(r, t) == {r.imseq[p] : p \in {q \in DOMAIN r.imseq : r.imtypeseq[q] = t}}

Recurring(r, t) ==
    {im \in ImagesTagged(r, t) :
        Cardinality({q \in DOMAIN r.imseq :
                        r.imseq[q] = im /\ r.imtypeseq[q] # FIXATION}) > 1}

\* C7: an accepted sequence has disjoint Target and Filler image sets, a
\* Repeat image set equal to the Target images that occur more than once,
\* and a Vigilance image set equal to the Filler images that occur more
\* than once.
C7_OverlapSetsExact ==
    RowAccepted =>
        /\ ImagesTagged(row, TARGET) \cap ImagesTagged(row, FILLER) = {}
        /\ ImagesTagged(row, REPEAT) = Recurring(row, TARGET)
        /\ ImagesTagged(row, VIGILANCE) = Recurring(row, FILLER)

IntervalKnobs ==
    {"min_repeat_interval", "max_repeat_interval",
     "min_vigilance_interval", "max_vigilance_interval"}

\* attn_config with the interval knobs left out
WithoutIntervalKnobs == [k \in DOMAIN attn_config \ IntervalKnobs |-> attn_config[k]]

\* twice the gap of the pair whose second showing is at position p: the
\* positions between the first showing and p
TwiceGap(r, p) ==
    p - (CHOOSE q \in DOMAIN r.imseq : q < p /\ r.imseq[q] = r.imseq[p])

\* min_repeat_interval < gap <= max_repeat_interval and
\* min_vigilance_interval <= gap <= max_vigilance_interval, for every pair
\* and every knob that is set
GapsWithinKnobs(r) ==
    \A p \in DOMAIN r.imtypeseq :
        /\ r.imtypeseq[p] = REPEAT =>
              /\ "min_repeat_interval" \in DOMAIN attn_config =>
                    2 * attn_config.min_repeat_interval < TwiceGap(r, p)
              /\ "max_repeat_interval" \in DOMAIN attn_config =>
                    TwiceGap(r, p) <= 2 * attn_config.max_repeat_interval
        /\ r.imtypeseq[p] = VIGILANCE =>
              /\ "min_vigilance_interval" \in DOMAIN attn_config =>
                    2 * attn_config.min_vigilance_interval <= TwiceGap(r, p)
              /\ "max_vigilance_interval" \in DOMAIN attn_config =>
                    TwiceGap(r, p) <= 2 * attn_config.max_vigilance_interval

C8_VigilanceAtMinimumAccepted ==
    /\ RowAccepted
    /\ "min_vigilance_interval" \in DOMAIN attn_config
    /\ \E p \in DOMAIN row.imtypeseq :
          /\ row.imtypeseq[p] = VIGILANCE
          /\ TwiceGap(row, p) = 2 * attn_config.min_vigilance_interval

\* C9: a validation failure on one row does not halt the conversion: when
\* the script ends, no row after a failing one is left unread, and every
\* participant whose table was written is listed in participants.tsv.
C9_ValidationFailureSkipsOneRow ==
    pc02 \in {"done", "AssertionError"} =>
        /\ nrows - idx = (IF pc02 = "AssertionError" THEN 1 ELSE 0)
        /\ \A subject \in bids_files :
              \E k \in DOMAIN manifest.participant_id :
                  manifest.participant_id[k] = subject

(***************************************************************************)
(* Claims about the exceptions caught in the cohort loop, under Spec.      *)
(***************************************************************************)
\* process_crt has just raised on df: the status holds the exception
ScoringRaised == JustScored /\ status \notin Returned

\* C11: a participant whose scoring raises an exception that the cohort
\* loop catches is skipped entirely: the shared counters after the call are
\* the counters as they were before it, also when the exception is raised
\* partway through the per-trial classification loop.
C11_RaisedLeavesCounters ==
    [][(pc = "loop" /\ pc' = "returned" /\ status' \notin Returned)
          => image_level_results' = image_level_results]_vars

\* C11 for the exceptions raised before the classification loop starts
\* (the fixation assertion, the broadcast, the boolean mask): these leave
\* the counters as they were.
C11_RaisedBeforeLoopLeavesCounters ==
    [][(pc = "loop" /\ pc' = "returned" /\ status' \notin Returned
          /\ status' # "ValueError: Unknown trial type")
          => image_level_results' = image_level_results]_vars

\* an exception raised before the classification loop, with counters of an
\* earlier participant in place
C11_RaisedBeforeLoopWitness ==
    /\ ScoringRaised
    /\ status # "ValueError: Unknown trial type"
    /\ DOMAIN image_level_results # {}

(***************************************************************************)
(* Claims about the shape of the accepted sequences, under SpecBids.       *)
(***************************************************************************)
\* the trials at the odd 0-based indices are Fixation trials, showing
\* fixation_img_name when that key is configured
OddIndicesAreFixation(r, cfg) ==
    \A p \in DOMAIN r.imtypeseq :
        p % 2 = 0 =>
            /\ r.imtypeseq[p] = FIXATION
            /\ "fixation_img_name" \in DOMAIN cfg =>
                  r.imseq[p] = cfg.fixation_img_name

\* the trials at the even 0-based indices are image trials
EvenIndicesAreImages(r) ==
    \A p \in DOMAIN r.imtypeseq : p % 2 = 1 => r.imtypeseq[p] # FIXATION

\* C12: every sequence accepted by validate_data has even length, holds a
\* Fixation trial (showing fixation_img_name when configured) at every odd
\* 0-based index and a non-Fixation image trial at every even 0-based index.
C12_AcceptedAlternates ==
    RowAccepted =>
        /\ Len(row.imseq) % 2 = 0
        /\ OddIndicesAreFixation(row, attn_config)
        /\ EvenIndicesAreImages(row)

\* C12 for the odd indices alone: every accepted sequence holds a Fixation
\* trial, showing fixation_img_name when configured, at every odd index.
C12_AcceptedOddIndicesAreFixation ==
    RowAccepted => OddIndicesAreFixation(row, attn_config)

\* an accepted sequence of even length with every fixation in place
C12_OddIndicesWitness ==
    /\ RowAccepted
    /\ Len(row.imseq) = 4
    /\ OddIndicesAreFixation(row, attn_config)
    /\ "fixation_img_name" \in DOMAIN attn_config

\* an accepted sequence of odd length
AcceptedOddLength == RowAccepted /\ Len(row.imseq) % 2 = 1

\* an accepted sequence of even length with a Fixation at an even index
AcceptedFixationOnImageSlot ==
    /\ RowAccepted
    /\ Len(row.imseq) % 2 = 0
    /\ ~EvenIndicesAreImages(row)

====
